---- MODULE Spec2Model ----
(***************************************************************************)
(* Terminal Command Trigger (src/src/extension.ts) as a state machine.     *)
(*                                                                         *)
(* Strings are sequences of one-character strings, so that startsWith,     *)
(* slice, split, join and trim act on characters as the JavaScript does.   *)
(* An absent optional string (onStart, onEnd) is the empty string: the     *)
(* code tests them for truthiness, which treats both alike.                *)
(***************************************************************************)
EXTENDS Integers, Sequences, FiniteSets, TLC

VARIABLES
  active,            \* activate() has run and deactivate() has not: the listeners are registered
  triggers,          \* configuration terminalCommandTrigger.triggers
  showNotification,  \* configuration terminalCommandTrigger.showNotification
  notificationDuration, \* configuration terminalCommandTrigger.notificationDuration (time units)
  execState,         \* host: each terminal shell execution, "idle" | "running" | "ended"
  commandLine,       \* host: execution.commandLine.value
  activeExecutions,  \* the module's Map<TerminalShellExecution, RegExp>
  tasks,             \* executeAction calls in flight, oldest first
  activated,         \* host: the extensions whose activate() has resolved
  calls,             \* history: per execution, every executeAction(action, phase) call
  invoked,           \* history: per execution, every target invoked (a command or an API method)
  lookups,           \* history: every id passed to vscode.extensions.getExtension
  messages,          \* history: per execution, every showErrorMessage
  notifications,     \* history: per execution, every showTemporaryNotification message
  sbVisible,         \* statusBarItem is shown
  sbText,            \* statusBarItem.text
  sbDisposed,        \* statusBarItem.dispose() was called on the current item
  statusBarTimeout,  \* the module's statusBarTimeout: 0 (undefined) or a timer handle
  timers,            \* host: pending setTimeout timers
  shownWarningFlag,  \* globalState 'shownShellIntegrationWarning'
  terminals,         \* host: vscode.window.terminals, each with its shellIntegration
  openListeners,     \* onDidOpenTerminal listeners registered by checkShellIntegration
  warnings,          \* history: number of showShellIntegrationWarning calls
  dialogs,           \* warning messages on screen awaiting the user's selection
  activations,       \* history: number of activate() calls
  sinceShow,         \* history: time elapsed since the latest showTemporaryNotification
  lastDuration,      \* history: the duration the latest showTemporaryNotification read
  startSeen,         \* history: per execution, the start event the extension handled
  endSeen,           \* history: per execution, number of end events the extension handled
  configChanges      \* history: number of configuration changes

vars == <<active, triggers, showNotification, notificationDuration, execState,
          commandLine, activeExecutions, tasks, activated, calls, invoked, lookups,
          messages, notifications, sbVisible, sbText, sbDisposed, statusBarTimeout,
          timers, shownWarningFlag, terminals, openListeners, warnings, dialogs,
          activations, sinceShow, lastDuration, startSeen, endSeen,
          configChanges>>

(***************************************************************************)
(* Bounds of the model.                                                    *)
(***************************************************************************)
MaxExecutions == 2
MaxTailLen == 5
MaxConfigChanges == 1
MaxActivations == 2
MaxTerminals == 2
MaxEndEvents == 2
MaxDuration == 2
MaxNotifications == 3

(***************************************************************************)
(* String primitives.                                                      *)
(***************************************************************************)
StartsWith(s, p) == Len(s) >= Len(p) /\ SubSeq(s, 1, Len(p)) = p

\* String.prototype.slice(n)
Slice(s, n) == SubSeq(s, n + 1, Len(s))

\* String.prototype.split(sep) for a one-character separator: at least one part
RECURSIVE Split(_, _)
Split(s, sep) ==
  IF \E i \in 1..Len(s) : s[i] = sep
  THEN LET i == CHOOSE k \in 1..Len(s) : s[k] = sep /\ \A j \in 1..(k - 1) : s[j] # sep
       IN  <<SubSeq(s, 1, i - 1)>> \o Split(SubSeq(s, i + 1, Len(s)), sep)
  ELSE <<s>>

\* Array.prototype.join(sep)
RECURSIVE Join(_, _)
Join(parts, sep) ==
  IF Len(parts) = 0 THEN <<>>
  ELSE IF Len(parts) = 1 THEN parts[1]
  ELSE parts[1] \o <<sep>> \o Join(Tail(parts), sep)

WhiteSpace == {" ", "\t"}

\* String.prototype.trim()
RECURSIVE Trim(_)
Trim(s) ==
  IF Len(s) = 0 THEN s
  ELSE IF s[1] \in WhiteSpace THEN Trim(Tail(s))
  ELSE IF s[Len(s)] \in WhiteSpace THEN Trim(SubSeq(s, 1, Len(s) - 1))
  ELSE s

(***************************************************************************)
(* Regular expressions: the sub-language of JavaScript's RegExp made of    *)
(* the assertions ^ and $, the wildcard . , literal characters, and the    *)
(* empty non-capturing group (?:) as a whole pattern.  Any other use of a  *)
(* metacharacter below is a SyntaxError of new RegExp.                     *)
(***************************************************************************)
EmptyGroup == <<"(", "?", ":", ")">>

MetaChars == {"(", ")", "?", "*", "+", "[", "\\"}

\* new RegExp(pattern) does not throw
ValidPattern(pattern) ==
  pattern = EmptyGroup \/ \A i \in 1..Len(pattern) : pattern[i] \notin MetaChars

\* new RegExp(pattern): the RegExp object, held by its source
NewRegExp(pattern) == [source |-> IF pattern = <<>> THEN EmptyGroup ELSE pattern]

\* RegExp.prototype.toString()
RegExpToString(regex) == <<"/">> \o regex.source \o <<"/">>

Atoms(regex) == IF regex.source = EmptyGroup THEN <<>> ELSE regex.source

\* the atoms from the k-th on match s at offset pos (pos characters consumed)
RECURSIVE MatchAt(_, _, _, _)
MatchAt(atoms, k, s, pos) ==
  IF k > Len(atoms) THEN TRUE
  ELSE CASE atoms[k] = "^" -> pos = 0 /\ MatchAt(atoms, k + 1, s, pos)
         [] atoms[k] = "$" -> pos = Len(s) /\ MatchAt(atoms, k + 1, s, pos)
         [] atoms[k] = "." -> pos < Len(s) /\ MatchAt(atoms, k + 1, s, pos + 1)
         [] OTHER -> pos < Len(s) /\ s[pos + 1] = atoms[k]
                     /\ MatchAt(atoms, k + 1, s, pos + 1)

\* RegExp.prototype.test(s), no flags: a match starting anywhere
RegExpTest(regex, s) == \E pos \in 0..Len(s) : MatchAt(Atoms(regex), 1, s, pos)

(***************************************************************************)
(* The host's extensions.  One extension is installed; its exports are a   *)
(* tree, given as the kind of value found at each property path.           *)
(***************************************************************************)
ExtE == <<"E">>

Installed == {ExtE}

ApiE ==
  ( <<<<"c">>>>             :> "object"   ) @@   \* client
  ( <<<<"c">>, <<"s">>>>    :> "function" ) @@   \* client.stop
  ( <<<<"c">>, <<"r">>>>    :> "function" ) @@   \* client.start
  ( <<<<"c">>, <<"n">>>>    :> "value"    ) @@   \* client.name, a string
  ( <<<<"s", ":", "s">>>>   :> "function" ) @@   \* a method whose name holds ':'
  ( <<<<"z">>>>             :> "falsy"    )      \* a property holding 0

Exports(extensionId) == IF extensionId = ExtE THEN ApiE ELSE <<>>

\* the kind of api.p1.p2...: what property access yields
GetProp(api, path) == IF path \in DOMAIN api THEN api[path] ELSE "undefined"

Truthy(kind) == kind \in {"object", "function", "value"}

(***************************************************************************)
(* executeAction, lines 199-247.                                           *)
(***************************************************************************)
ExtPrefix == <<"e", "x", "t", ":">>

\* ExecuteActionParse taking the part after the second ':' alone as the API
\* path: the further ':' and what follows them are dropped
ExecuteActionParseSecondPart(action) ==
  IF StartsWith(action, ExtPrefix)
  THEN LET parts == Split(Slice(action, 4), ":") IN
       IF Len(parts) < 2
       THEN [outcome |-> "throw", looked |-> FALSE, extensionId |-> <<>>, apiPath |-> <<>>]
       ELSE IF parts[1] \notin Installed
       THEN [outcome |-> "throw", looked |-> TRUE,
             extensionId |-> parts[1], apiPath |-> parts[2]]
       ELSE [outcome |-> "await", looked |-> TRUE,
             extensionId |-> parts[1], apiPath |-> parts[2]]
  ELSE [outcome |-> "command", looked |-> FALSE, extensionId |-> <<>>, apiPath |-> <<>>]

\* lines 200-217 and 242-246: the part that runs before the first await.
ExecuteActionParse(action) ==
  IF StartsWith(action, ExtPrefix)
  THEN LET parts == Split(Slice(action, 4), ":") IN
       IF Len(parts) < 2
       THEN [outcome |-> "throw", looked |-> FALSE, extensionId |-> <<>>, apiPath |-> <<>>]
       ELSE LET extensionId == parts[1]
                apiPath == Join(Tail(parts), ":")
            IN  IF extensionId \notin Installed
                THEN [outcome |-> "throw", looked |-> TRUE,
                      extensionId |-> extensionId, apiPath |-> apiPath]
                ELSE [outcome |-> "await", looked |-> TRUE,
                      extensionId |-> extensionId, apiPath |-> apiPath]
  ELSE [outcome |-> "command", looked |-> FALSE, extensionId |-> <<>>, apiPath |-> <<>>]

\* lines 225-230: the loop over all but the last path part; target is the
\* path of the object reached so far
RECURSIVE WalkPath(_, _, _, _)
WalkPath(api, pathParts, i, target) ==
  IF i > Len(pathParts) - 1 THEN [ok |-> TRUE, target |-> target]
  ELSE LET next == Append(target, pathParts[i]) IN
       IF ~Truthy(GetProp(api, next))
       THEN [ok |-> FALSE, target |-> next]
       ELSE WalkPath(api, pathParts, i + 1, next)

\* ResolveMethod without the typeof test of lines 235-237: whatever the
\* last path part names is called
ResolveMethodUntested(api, apiPath) ==
  LET pathParts == Split(apiPath, ".")
      walk == WalkPath(api, pathParts, 1, <<>>)
      methodName == pathParts[Len(pathParts)]
  IN  IF ~walk.ok
      THEN [ok |-> FALSE, target |-> walk.target, methodName |-> methodName]
      ELSE [ok |-> TRUE, target |-> walk.target, methodName |-> methodName]

\* lines 222-240: after activate() resolved
ResolveMethod(api, apiPath) ==
  LET pathParts == Split(apiPath, ".")
      walk == WalkPath(api, pathParts, 1, <<>>)
      methodName == pathParts[Len(pathParts)]
  IN  IF ~walk.ok
      THEN [ok |-> FALSE, target |-> walk.target, methodName |-> methodName]
      ELSE IF GetProp(api, Append(walk.target, methodName)) # "function"
      THEN [ok |-> FALSE, target |-> walk.target, methodName |-> methodName]
      ELSE [ok |-> TRUE, target |-> walk.target, methodName |-> methodName]

FailedMessage(action) == [kind |-> "failed", text |-> action]
InvalidMessage(pattern) == [kind |-> "invalid", text |-> pattern]

\* vscode.commands.executeCommand(action), line 245
CommandInvocation(e, phase, action) ==
  [phase |-> phase, action |-> action, kind |-> "command",
   command |-> action, extensionId |-> <<>>, this |-> <<>>, method |-> <<>>,
   args |-> <<>>]

\* method.call(target), line 240
ApiInvocation(task, r) ==
  [phase |-> task.phase, action |-> task.action, kind |-> "api",
   command |-> <<>>, extensionId |-> task.extensionId, this |-> r.target,
   method |-> r.methodName, args |-> <<>>]

NewTask(e, phase, action, pc, p, notify) ==
  [e |-> e, phase |-> phase, action |-> action, pc |-> pc,
   extensionId |-> p.extensionId, apiPath |-> p.apiPath, notify |-> notify]

\* The effects a handler accumulates, as one record.
Effects ==
  [activeExecutions |-> activeExecutions, tasks |-> tasks, calls |-> calls,
   invoked |-> invoked, lookups |-> lookups, messages |-> messages]

\* executeAction(action, phase).then(onResolved, onRejected), up to the first
\* point where the promise is pending.  A throw before the first await rejects
\* the promise, and the rejection callback runs before any other event.
ExecuteAction(fx, e, phase, action, notify) ==
  LET p == ExecuteActionParse(action)
      fx1 == [fx EXCEPT !.calls[e] = Append(@, [phase |-> phase, action |-> action]),
                        !.lookups = IF p.looked THEN @ \cup {p.extensionId} ELSE @]
  IN  CASE p.outcome = "command" ->
             [fx1 EXCEPT !.invoked[e] = Append(@, CommandInvocation(e, phase, action)),
                         !.tasks = Append(@, NewTask(e, phase, action, "called", p, notify))]
        [] p.outcome = "await" ->
             [fx1 EXCEPT !.tasks = Append(@, NewTask(e, phase, action, "activating", p, notify))]
        [] OTHER ->
             [fx1 EXCEPT !.messages[e] = Append(@, FailedMessage(action))]

Commit(fx) ==
  /\ activeExecutions' = fx.activeExecutions
  /\ tasks' = fx.tasks
  /\ calls' = fx.calls
  /\ invoked' = fx.invoked
  /\ lookups' = fx.lookups
  /\ messages' = fx.messages

(***************************************************************************)
(* Timers and the status bar, lines 249-267.  Time is counted in units of  *)
(* one second; a timer fires when its remaining time is 0, and time does   *)
(* not pass while a timer is due.                                          *)
(***************************************************************************)
ShellCheckDelay == 3
OpenCheckDelay == 2
DefaultDuration == 3

Durations == (1..MaxDuration) \cup {DefaultDuration}

NoText == [phase |-> "", action |-> <<>>]

Timer(kind, id, owner, remaining) ==
  [kind |-> kind, id |-> id, owner |-> owner, remaining |-> remaining]

\* clearTimeout(handle)
ClearTimeout(ts, handle) == {t \in ts : ~(t.kind = "hide" /\ t.id = handle)}

\* the handle setTimeout returns: one no pending timer has
NewHandle(ts) ==
  CHOOSE n \in 1..(Cardinality(ts) + 1) :
    /\ \A t \in ts : ~(t.kind = "hide" /\ t.id = n)
    /\ \A k \in 1..(n - 1) : \E t \in ts : t.kind = "hide" /\ t.id = k

\* lines 253-256 left out: the previous timer stays pending
ClearNothing(ts, handle) == ts

\* lines 253-256
ClearPrevious(ts, handle) == IF handle # 0 THEN ClearTimeout(ts, handle) ELSE ts

\* showTemporaryNotification(message)
ShowTemporaryNotification(e, message) ==
  LET duration == notificationDuration
      cleared == ClearPrevious(timers, statusBarTimeout)
      handle == NewHandle(cleared)
  IN  /\ sbText' = message
      /\ sbVisible' = ~sbDisposed
      /\ timers' = cleared \cup {Timer("hide", handle, 0, duration)}
      /\ statusBarTimeout' = handle
      /\ notifications' = [notifications EXCEPT ![e] = Append(@, message)]
      /\ sinceShow' = 0
      /\ lastDuration' = duration

NotifyUnchanged ==
  UNCHANGED <<sbText, sbVisible, timers, statusBarTimeout, notifications, sinceShow,
              lastDuration>>

ConfigUnchanged ==
  UNCHANGED <<triggers, showNotification, notificationDuration, configChanges>>

HostExecUnchanged == UNCHANGED <<execState, commandLine>>

WarnUnchanged ==
  UNCHANGED <<shownWarningFlag, terminals, openListeners, warnings, dialogs>>

ExecHistoryUnchanged == UNCHANGED <<startSeen, endSeen>>

EffectsUnchanged ==
  UNCHANGED <<activeExecutions, tasks, calls, invoked, lookups, messages>>

\* the callback of line 263
HideTimerFires(t) ==
  /\ t \in timers /\ t.kind = "hide" /\ t.remaining = 0
  /\ timers' = timers \ {t}
  /\ sbVisible' = FALSE
  /\ statusBarTimeout' = 0
  /\ UNCHANGED <<sbText, sbDisposed, notifications, sinceShow, lastDuration>>
  /\ UNCHANGED <<active, activated, activations>>
  /\ ConfigUnchanged /\ HostExecUnchanged /\ WarnUnchanged
  /\ ExecHistoryUnchanged /\ EffectsUnchanged

\* one unit of time passes
Tick ==
  /\ timers # {}
  /\ \A t \in timers : t.remaining > 0
  /\ timers' = {[t EXCEPT !.remaining = @ - 1] : t \in timers}
  /\ sinceShow' = IF sinceShow <= lastDuration THEN sinceShow + 1 ELSE sinceShow
  /\ UNCHANGED <<sbText, sbVisible, sbDisposed, statusBarTimeout, notifications,
                 lastDuration>>
  /\ UNCHANGED <<active, activated, activations>>
  /\ ConfigUnchanged /\ HostExecUnchanged /\ WarnUnchanged
  /\ ExecHistoryUnchanged /\ EffectsUnchanged

(***************************************************************************)
(* The terminal event handlers, lines 94-197.                              *)
(***************************************************************************)
Trigger(pattern, onStart, onEnd) ==
  [pattern |-> pattern, onStart |-> onStart, onEnd |-> onEnd]

\* Map.prototype.set and Map.prototype.delete
MapSet(m, k, v) == [x \in DOMAIN m \cup {k} |-> IF x = k THEN v ELSE m[x]]

\* Map.prototype.clear in the place of delete
MapDeleteAll(m, k) == [x \in {} |-> m[x]]

MapDelete(m, k) == [x \in DOMAIN m \ {k} |-> m[x]]

\* StartLoop without the break of line 137: the triggers after a match are tried too
RECURSIVE StartLoopNoBreak(_, _, _, _, _, _)
StartLoopNoBreak(fx, e, cmd, trig, notify, i) ==
  IF i > Len(trig) THEN fx
  ELSE LET trigger == trig[i] IN
       IF ~ValidPattern(trigger.pattern)
       THEN StartLoopNoBreak([fx EXCEPT !.messages[e] = Append(@, InvalidMessage(trigger.pattern))],
                             e, cmd, trig, notify, i + 1)
       ELSE LET regex == NewRegExp(trigger.pattern) IN
            IF RegExpTest(regex, cmd)
            THEN LET fx1 == [fx EXCEPT !.activeExecutions = MapSet(@, e, regex)]
                     fx2 == IF trigger.onStart # <<>>
                            THEN ExecuteAction(fx1, e, "onStart", trigger.onStart, notify)
                            ELSE fx1
                 IN  StartLoopNoBreak(fx2, e, cmd, trig, notify, i + 1)
            ELSE StartLoopNoBreak(fx, e, cmd, trig, notify, i + 1)

\* StartLoop recording the execution only when the onStart action is pending
\* after the call: not when the trigger has no onStart, not when it failed
RECURSIVE StartLoopRecordPending(_, _, _, _, _, _)
StartLoopRecordPending(fx, e, cmd, trig, notify, i) ==
  IF i > Len(trig) THEN fx
  ELSE LET trigger == trig[i] IN
       IF ~ValidPattern(trigger.pattern)
       THEN StartLoopRecordPending(
              [fx EXCEPT !.messages[e] = Append(@, InvalidMessage(trigger.pattern))],
              e, cmd, trig, notify, i + 1)
       ELSE LET regex == NewRegExp(trigger.pattern) IN
            IF RegExpTest(regex, cmd)
            THEN IF trigger.onStart # <<>>
                 THEN LET fx1 == ExecuteAction(fx, e, "onStart", trigger.onStart, notify) IN
                      IF Len(fx1.tasks) > Len(fx.tasks)
                      THEN [fx1 EXCEPT !.activeExecutions = MapSet(@, e, regex)]
                      ELSE fx1
                 ELSE fx
            ELSE StartLoopRecordPending(fx, e, cmd, trig, notify, i + 1)

\* StartLoop with the try around the whole loop: an invalid pattern shows
\* its message and ends the matching
RECURSIVE StartLoopStopAtInvalid(_, _, _, _, _, _)
StartLoopStopAtInvalid(fx, e, cmd, trig, notify, i) ==
  IF i > Len(trig) THEN fx
  ELSE LET trigger == trig[i] IN
       IF ~ValidPattern(trigger.pattern)
       THEN [fx EXCEPT !.messages[e] = Append(@, InvalidMessage(trigger.pattern))]
       ELSE LET regex == NewRegExp(trigger.pattern) IN
            IF RegExpTest(regex, cmd)
            THEN LET fx1 == [fx EXCEPT !.activeExecutions = MapSet(@, e, regex)] IN
                 IF trigger.onStart # <<>>
                 THEN ExecuteAction(fx1, e, "onStart", trigger.onStart, notify)
                 ELSE fx1
            ELSE StartLoopStopAtInvalid(fx, e, cmd, trig, notify, i + 1)

\* lines 107-145: the loop over the triggers, from the i-th on
RECURSIVE StartLoop(_, _, _, _, _, _)
StartLoop(fx, e, cmd, trig, notify, i) ==
  IF i > Len(trig) THEN fx
  ELSE LET trigger == trig[i] IN
       IF ~ValidPattern(trigger.pattern)
       THEN StartLoop([fx EXCEPT !.messages[e] = Append(@, InvalidMessage(trigger.pattern))],
                      e, cmd, trig, notify, i + 1)
       ELSE LET regex == NewRegExp(trigger.pattern) IN
            IF RegExpTest(regex, cmd)
            THEN LET fx1 == [fx EXCEPT !.activeExecutions = MapSet(@, e, regex)] IN
                 IF trigger.onStart # <<>>
                 THEN ExecuteAction(fx1, e, "onStart", trigger.onStart, notify)
                 ELSE fx1
            ELSE StartLoop(fx, e, cmd, trig, notify, i + 1)

\* handleTerminalCommandStart testing the command line for emptiness before
\* it is trimmed: a line of blanks goes on to the triggers
HandleTerminalCommandStartRaw(fx, e, value) ==
  IF value = <<>> THEN fx
  ELSE StartLoop(fx, e, Trim(value), triggers, showNotification, 1)

\* handleTerminalCommandStart(execution)
HandleTerminalCommandStart(fx, e, value) ==
  LET cmd == Trim(value) IN
  IF cmd = <<>> THEN fx
  ELSE StartLoop(fx, e, cmd, triggers, showNotification, 1)

\* EndLoop without the break of line 191: every trigger of that regex text fires
RECURSIVE EndLoopNoBreak(_, _, _, _, _, _)
EndLoopNoBreak(fx, e, regex, trig, notify, i) ==
  IF i > Len(trig) THEN fx
  ELSE LET trigger == trig[i] IN
       IF ~ValidPattern(trigger.pattern)
       THEN EndLoopNoBreak(fx, e, regex, trig, notify, i + 1)
       ELSE IF RegExpToString(NewRegExp(trigger.pattern)) = RegExpToString(regex)
       THEN EndLoopNoBreak(IF trigger.onEnd # <<>>
                           THEN ExecuteAction(fx, e, "onEnd", trigger.onEnd, notify)
                           ELSE fx,
                           e, regex, trig, notify, i + 1)
       ELSE EndLoopNoBreak(fx, e, regex, trig, notify, i + 1)

\* EndLoop finding the trigger by its pattern string being the recorded
\* regex's source, not by the regex text of its compiled pattern
RECURSIVE EndLoopByPattern(_, _, _, _, _, _)
EndLoopByPattern(fx, e, regex, trig, notify, i) ==
  IF i > Len(trig) THEN fx
  ELSE LET trigger == trig[i] IN
       IF trigger.pattern = regex.source
       THEN IF trigger.onEnd # <<>>
            THEN ExecuteAction(fx, e, "onEnd", trigger.onEnd, notify)
            ELSE fx
       ELSE EndLoopByPattern(fx, e, regex, trig, notify, i + 1)

\* lines 167-196: the loop over the triggers, from the i-th on
RECURSIVE EndLoop(_, _, _, _, _, _)
EndLoop(fx, e, regex, trig, notify, i) ==
  IF i > Len(trig) THEN fx
  ELSE LET trigger == trig[i] IN
       IF ~ValidPattern(trigger.pattern)
       THEN EndLoop(fx, e, regex, trig, notify, i + 1)
       ELSE IF RegExpToString(NewRegExp(trigger.pattern)) = RegExpToString(regex)
       THEN IF trigger.onEnd # <<>>
            THEN ExecuteAction(fx, e, "onEnd", trigger.onEnd, notify)
            ELSE fx
       ELSE EndLoop(fx, e, regex, trig, notify, i + 1)

\* handleTerminalCommandEnd without the delete of line 156
HandleTerminalCommandEndKeep(fx, e) ==
  IF e \notin DOMAIN fx.activeExecutions THEN fx
  ELSE EndLoop(fx, e, fx.activeExecutions[e], triggers, showNotification, 1)

\* handleTerminalCommandEnd finding the trigger by testing the command line
\* again, whether or not the execution has a record
HandleTerminalCommandEndRetest(fx, e) ==
  LET cmd == Trim(commandLine[e])
      hits == {i \in 1..Len(triggers) :
                 /\ ValidPattern(triggers[i].pattern)
                 /\ RegExpTest(NewRegExp(triggers[i].pattern), cmd)}
      fx1 == [fx EXCEPT !.activeExecutions = MapDelete(@, e)]
  IN  IF hits = {} THEN fx1
      ELSE LET i == CHOOSE k \in hits : \A j \in hits : k <= j IN
           IF triggers[i].onEnd # <<>>
           THEN ExecuteAction(fx1, e, "onEnd", triggers[i].onEnd, showNotification)
           ELSE fx1

\* handleTerminalCommandEnd(execution)
HandleTerminalCommandEnd(fx, e) ==
  IF e \notin DOMAIN fx.activeExecutions THEN fx
  ELSE LET regex == fx.activeExecutions[e]
           fx1 == [fx EXCEPT !.activeExecutions = MapDelete(@, e)]
       IN  EndLoop(fx1, e, regex, triggers, showNotification, 1)

Executions == 1..MaxExecutions

\* the histories are kept per execution; 0 owns what no execution caused
Owners == 0..MaxExecutions

\* The command lines typed: xm, m with blanks around it, a blank line.
CommandLines == { <<"x", "m">>, <<" ", "m", " ">>, <<" ">> }

\* onDidStartTerminalShellExecution fires for e; lines 29-31 run when the
\* listener is registered.
StartTerminalShellExecution(e, value) ==
  /\ execState[e] = "idle"
  /\ \A k \in 1..(e - 1) : execState[k] # "idle"
  /\ execState' = [execState EXCEPT ![e] = "running"]
  /\ commandLine' = [commandLine EXCEPT ![e] = value]
  /\ IF active
     THEN /\ Commit(HandleTerminalCommandStart(Effects, e, value))
          /\ startSeen' = [startSeen EXCEPT ![e] =
               [seen |-> TRUE, activation |-> activations, triggers |-> triggers]]
     ELSE EffectsUnchanged /\ UNCHANGED startSeen
  /\ UNCHANGED <<active, activated, activations, sbDisposed, endSeen>>
  /\ ConfigUnchanged /\ WarnUnchanged /\ NotifyUnchanged

\* the handling of an end event for e, lines 36-38
EndEvent(e) ==
  /\ IF active
     THEN /\ Commit(HandleTerminalCommandEnd(Effects, e))
          /\ endSeen' = [endSeen EXCEPT ![e] = @ + 1]
     ELSE EffectsUnchanged /\ UNCHANGED endSeen
  /\ UNCHANGED <<active, activated, activations, sbDisposed, startSeen, commandLine>>
  /\ ConfigUnchanged /\ WarnUnchanged /\ NotifyUnchanged

\* onDidEndTerminalShellExecution fires for the running execution e
EndTerminalShellExecution(e) ==
  /\ execState[e] = "running"
  /\ execState' = [execState EXCEPT ![e] = "ended"]
  /\ EndEvent(e)

\* a further end event for an execution that has ended
RepeatEndEvent(e) ==
  /\ execState[e] = "ended"
  /\ active
  /\ endSeen[e] < MaxEndEvents
  /\ UNCHANGED execState
  /\ EndEvent(e)

(***************************************************************************)
(* The asynchronous part of executeAction and the promise callbacks.       *)
(***************************************************************************)
RemoveAt(seq, i) == SubSeq(seq, 1, i - 1) \o SubSeq(seq, i + 1, Len(seq))

\* the host finishes activating an extension some task awaits (line 219)
ActivateExtension(x) ==
  /\ x \in Installed \ activated
  /\ \E i \in 1..Len(tasks) : tasks[i].pc = "activating" /\ tasks[i].extensionId = x
  /\ activated' = activated \cup {x}
  /\ UNCHANGED <<active, activations, sbDisposed>>
  /\ ConfigUnchanged /\ HostExecUnchanged /\ WarnUnchanged /\ NotifyUnchanged
  /\ ExecHistoryUnchanged /\ EffectsUnchanged

\* await extension.activate() returns in task i: lines 222-240, and the
\* rejection callback when they throw.  Tasks awaiting one extension resume
\* in the order they called activate().
ResumeTask(i) ==
  /\ i \in 1..Len(tasks)
  /\ tasks[i].pc = "activating"
  /\ tasks[i].extensionId \in activated
  /\ \A j \in 1..(i - 1) :
       ~(tasks[j].pc = "activating" /\ tasks[j].extensionId = tasks[i].extensionId)
  /\ LET task == tasks[i]
         r == ResolveMethod(Exports(task.extensionId), task.apiPath)
     IN  IF r.ok
         THEN /\ invoked' = [invoked EXCEPT ![task.e] = Append(@, ApiInvocation(task, r))]
              /\ tasks' = [tasks EXCEPT ![i].pc = "called"]
              /\ UNCHANGED messages
         ELSE /\ messages' = [messages EXCEPT ![task.e] = Append(@, FailedMessage(task.action))]
              /\ tasks' = RemoveAt(tasks, i)
              /\ UNCHANGED invoked
  /\ UNCHANGED <<active, activated, activations, sbDisposed, activeExecutions, calls,
                 lookups>>
  /\ ConfigUnchanged /\ HostExecUnchanged /\ WarnUnchanged /\ NotifyUnchanged
  /\ ExecHistoryUnchanged

NotificationText(task) == [phase |-> task.phase, action |-> task.action]

\* the promise of task i settles: the callbacks of lines 120-132 and 175-187
SettleTask(i, resolved) ==
  /\ i \in 1..Len(tasks)
  /\ tasks[i].pc = "called"
  /\ IF resolved
     THEN /\ IF tasks[i].notify
             THEN ShowTemporaryNotification(tasks[i].e, NotificationText(tasks[i]))
             ELSE NotifyUnchanged
          /\ UNCHANGED messages
     ELSE /\ messages' = [messages EXCEPT ![tasks[i].e] = Append(@, FailedMessage(tasks[i].action))]
          /\ NotifyUnchanged
  /\ tasks' = RemoveAt(tasks, i)
  /\ UNCHANGED <<active, activated, activations, sbDisposed, activeExecutions, calls,
                 invoked, lookups>>
  /\ ConfigUnchanged /\ HostExecUnchanged /\ WarnUnchanged /\ ExecHistoryUnchanged

(***************************************************************************)
(* Activation, lines 14-42 and 269-275, and the configuration.             *)
(***************************************************************************)
\* checkShellIntegration(context), lines 45-52: the timer of line 52
CheckShellIntegration(ts, n) ==
  IF shownWarningFlag THEN ts
  ELSE ts \cup {Timer("check", n, n, ShellCheckDelay)}

\* activate(context): the host activates the extension once in a process
Activate ==
  /\ ~active
  /\ ~sbDisposed
  /\ activations < MaxActivations
  /\ active' = TRUE
  /\ activations' = activations + 1
  /\ sbDisposed' = FALSE
  /\ sbVisible' = FALSE
  /\ sbText' = NoText
  /\ timers' = CheckShellIntegration(timers, activations + 1)
  /\ UNCHANGED <<activated, statusBarTimeout, notifications, sinceShow, lastDuration>>
  /\ ConfigUnchanged /\ HostExecUnchanged /\ WarnUnchanged
  /\ ExecHistoryUnchanged /\ EffectsUnchanged

\* deactivate(): statusBarTimeout keeps the cleared handle
Deactivate ==
  /\ active
  /\ active' = FALSE
  /\ timers' = ClearPrevious(timers, statusBarTimeout)
  /\ sbDisposed' = TRUE
  /\ sbVisible' = FALSE
  /\ activeExecutions' = <<>>
  /\ UNCHANGED <<activated, activations, sbText, statusBarTimeout, notifications,
                 sinceShow, lastDuration, tasks, calls, invoked, lookups, messages>>
  /\ ConfigUnchanged /\ HostExecUnchanged /\ WarnUnchanged /\ ExecHistoryUnchanged

\* The extension host process ends after deactivate() and a new one loads
\* the module: the module's state, its timers, listeners and promises are
\* gone; the configuration, the globalState and the terminals stay.
ProcessExit ==
  /\ ~active
  /\ sbDisposed
  /\ sbDisposed' = FALSE
  /\ sbText' = NoText
  /\ statusBarTimeout' = 0
  /\ timers' = {}
  /\ tasks' = <<>>
  /\ openListeners' = {}
  /\ activated' = {}
  /\ UNCHANGED <<active, activations, sbVisible, notifications,
                 sinceShow, lastDuration, activeExecutions, calls, invoked, lookups,
                 messages, shownWarningFlag, terminals, warnings, dialogs>>
  /\ ConfigUnchanged /\ HostExecUnchanged /\ ExecHistoryUnchanged

T_xm == <<"^", "x", "m">>
T_m == <<"m">>
T_cm == <<"^", "m">>
T_bad == <<"(">>

CmdK == <<"k">>
CmdJ == <<"j">>
ApiStop == <<"e", "x", "t", ":", "E", ":", "c", ".", "s">>
ApiStart == <<"e", "x", "t", ":", "E", ":", "c", ".", "r">>
ApiName == <<"e", "x", "t", ":", "E", ":", "c", ".", "n">>
ApiMissing == <<"e", "x", "t", ":", "F", ":", "c", ".", "s">>

\* The trigger lists the user configures.
ConfigPool ==
  { <<Trigger(T_xm, ApiStop, ApiStart), Trigger(T_m, CmdK, CmdJ)>>,
    <<Trigger(T_cm, ApiStop, CmdK), Trigger(T_cm, CmdJ, ApiStart)>>,
    <<Trigger(T_bad, CmdK, CmdK), Trigger(T_xm, CmdK, <<>>), Trigger(T_m, <<>>, CmdJ)>>,
    <<Trigger(<<>>, CmdK, <<>>), Trigger(EmptyGroup, <<>>, CmdJ)>>,
    <<Trigger(T_xm, ApiMissing, ApiName)>> }

\* the user edits terminalCommandTrigger.triggers or .showNotification
ChangeConfiguration(trig, notify) ==
  /\ configChanges < MaxConfigChanges
  /\ (trig # triggers /\ notify = showNotification)
     \/ (trig = triggers /\ notify # showNotification)
  /\ triggers' = trig
  /\ showNotification' = notify
  /\ configChanges' = configChanges + 1
  /\ UNCHANGED <<active, activated, activations, sbDisposed, notificationDuration>>
  /\ HostExecUnchanged /\ WarnUnchanged /\ NotifyUnchanged
  /\ ExecHistoryUnchanged /\ EffectsUnchanged

\* the user edits terminalCommandTrigger.notificationDuration
ChangeDuration(d) ==
  /\ configChanges < MaxConfigChanges
  /\ d # notificationDuration
  /\ notificationDuration' = d
  /\ configChanges' = configChanges + 1
  /\ UNCHANGED <<active, activated, activations, sbDisposed, triggers, showNotification>>
  /\ HostExecUnchanged /\ WarnUnchanged /\ NotifyUnchanged
  /\ ExecHistoryUnchanged /\ EffectsUnchanged

(***************************************************************************)
(* The Shell Integration warning, lines 44-92.                             *)
(***************************************************************************)
Terminals == 1..MaxTerminals

OpenTerminals == {t \in Terminals : terminals[t].state = "open"}

\* showShellIntegrationWarning(context), up to the message being on screen
ShowShellIntegrationWarning ==
  /\ warnings' = warnings + 1
  /\ dialogs' = dialogs + 1

\* the callback of line 52
CheckTimerFires(t) ==
  /\ t \in timers /\ t.kind = "check" /\ t.remaining = 0
  /\ timers' = timers \ {t}
  /\ LET hasIntegration == \E x \in OpenTerminals : terminals[x].integration IN
     IF ~hasIntegration /\ OpenTerminals = {}
     THEN /\ openListeners' = openListeners \cup {t.owner}
          /\ UNCHANGED <<warnings, dialogs, shownWarningFlag>>
     ELSE /\ IF ~hasIntegration
             THEN ShowShellIntegrationWarning
             ELSE UNCHANGED <<warnings, dialogs>>
          /\ shownWarningFlag' = TRUE
          /\ UNCHANGED openListeners
  /\ UNCHANGED <<active, activated, activations, sbDisposed, terminals, sbText,
                 sbVisible, statusBarTimeout, notifications, sinceShow, lastDuration>>
  /\ ConfigUnchanged /\ HostExecUnchanged /\ ExecHistoryUnchanged /\ EffectsUnchanged

\* the user opens a terminal: every registered listener of line 58 runs
OpenTerminal(x) ==
  /\ terminals[x].state = "none"
  /\ \A k \in 1..(x - 1) : terminals[k].state # "none"
  /\ terminals' = [terminals EXCEPT ![x] = [state |-> "open", integration |-> FALSE]]
  /\ timers' = timers \cup {Timer("openCheck", x, a, OpenCheckDelay) : a \in openListeners}
  /\ UNCHANGED <<active, activated, activations, sbDisposed, sbText, sbVisible,
                 statusBarTimeout, notifications, sinceShow, lastDuration,
                 shownWarningFlag, openListeners, warnings, dialogs>>
  /\ ConfigUnchanged /\ HostExecUnchanged /\ ExecHistoryUnchanged /\ EffectsUnchanged

\* the shell of an open terminal reports its integration
IntegrationActivates(x) ==
  /\ terminals[x].state = "open"
  /\ ~terminals[x].integration
  /\ terminals' = [terminals EXCEPT ![x].integration = TRUE]
  /\ UNCHANGED <<active, activated, activations, sbDisposed, shownWarningFlag,
                 openListeners, warnings, dialogs>>
  /\ ConfigUnchanged /\ HostExecUnchanged /\ NotifyUnchanged
  /\ ExecHistoryUnchanged /\ EffectsUnchanged

\* the user closes a terminal
CloseTerminal(x) ==
  /\ terminals[x].state = "open"
  /\ terminals' = [terminals EXCEPT ![x].state = "closed"]
  /\ UNCHANGED <<active, activated, activations, sbDisposed, shownWarningFlag,
                 openListeners, warnings, dialogs>>
  /\ ConfigUnchanged /\ HostExecUnchanged /\ NotifyUnchanged
  /\ ExecHistoryUnchanged /\ EffectsUnchanged

\* OpenCheckFires with the test of line 60 inverted
OpenCheckFiresInverted(t) ==
  /\ t \in timers /\ t.kind = "openCheck" /\ t.remaining = 0
  /\ timers' = timers \ {t}
  /\ IF terminals[t.id].integration
     THEN ShowShellIntegrationWarning
     ELSE UNCHANGED <<warnings, dialogs>>
  /\ openListeners' = openListeners \ {t.owner}
  /\ UNCHANGED <<active, activated, activations, sbDisposed, terminals, sbText,
                 sbVisible, statusBarTimeout, notifications, sinceShow, lastDuration,
                 shownWarningFlag>>
  /\ ConfigUnchanged /\ HostExecUnchanged /\ ExecHistoryUnchanged /\ EffectsUnchanged

\* the callback of line 59, for terminal t.id and the listener of t.owner
OpenCheckFires(t) ==
  /\ t \in timers /\ t.kind = "openCheck" /\ t.remaining = 0
  /\ timers' = timers \ {t}
  /\ IF ~terminals[t.id].integration
     THEN ShowShellIntegrationWarning
     ELSE UNCHANGED <<warnings, dialogs>>
  /\ openListeners' = openListeners \ {t.owner}
  /\ UNCHANGED <<active, activated, activations, sbDisposed, terminals, sbText,
                 sbVisible, statusBarTimeout, notifications, sinceShow, lastDuration,
                 shownWarningFlag>>
  /\ ConfigUnchanged /\ HostExecUnchanged /\ ExecHistoryUnchanged /\ EffectsUnchanged

Selections == {"Learn More", "Don't Show Again", "none"}

\* the user answers or dismisses a warning: lines 83-91
UserSelects(selection) ==
  /\ dialogs > 0
  /\ dialogs' = dialogs - 1
  /\ shownWarningFlag' = IF selection = "Don't Show Again" THEN TRUE ELSE shownWarningFlag
  /\ UNCHANGED <<active, activated, activations, sbDisposed, terminals, openListeners,
                 warnings>>
  /\ ConfigUnchanged /\ HostExecUnchanged /\ NotifyUnchanged
  /\ ExecHistoryUnchanged /\ EffectsUnchanged

(***************************************************************************)
(* Initial state: the module is loaded and not yet activated.              *)
(***************************************************************************)
InitModule ==
  /\ active = FALSE
  /\ notificationDuration = DefaultDuration
  /\ execState = [e \in Executions |-> "idle"]
  /\ commandLine = [e \in Executions |-> <<>>]
  /\ activeExecutions = <<>>
  /\ tasks = <<>>
  /\ calls = [e \in Owners |-> <<>>]
  /\ invoked = [e \in Owners |-> <<>>]
  /\ lookups = {}
  /\ messages = [e \in Owners |-> <<>>]
  /\ notifications = [e \in Owners |-> <<>>]
  /\ sbVisible = FALSE
  /\ sbText = NoText
  /\ sbDisposed = FALSE
  /\ statusBarTimeout = 0
  /\ timers = {}
  /\ terminals = [x \in Terminals |-> [state |-> "none", integration |-> FALSE]]
  /\ openListeners = {}
  /\ warnings = 0
  /\ dialogs = 0
  /\ activations = 0
  /\ sinceShow = 0
  /\ lastDuration = 0
  /\ startSeen = [e \in Executions |-> [seen |-> FALSE, activation |-> 0, triggers |-> <<>>]]
  /\ endSeen = [e \in Executions |-> 0]
  /\ configChanges = 0

\* One session of terminal commands: any configured trigger list, the warning
\* dealt with in an earlier session.
Init ==
  /\ InitModule
  /\ triggers \in ConfigPool
  /\ showNotification \in BOOLEAN
  /\ activated = {}
  /\ shownWarningFlag = TRUE

Next ==
  \/ Activate
  \/ Deactivate
  \/ \E e \in Executions, value \in CommandLines : StartTerminalShellExecution(e, value)
  \/ \E e \in Executions : EndTerminalShellExecution(e)
  \/ \E e \in Executions : RepeatEndEvent(e)
  \/ \E x \in Installed : ActivateExtension(x)
  \/ \E i \in 1..Len(tasks) : ResumeTask(i)
  \/ \E i \in 1..Len(tasks), resolved \in BOOLEAN : SettleTask(i, resolved)
  \/ \E trig \in ConfigPool, notify \in BOOLEAN : ChangeConfiguration(trig, notify)

Spec == Init /\ [][Next]_vars

(***************************************************************************)
(* executeAction on its own: one call with any action string of the set.   *)
(***************************************************************************)
TailAlphabet == {"E", ":", ".", "c", "s"}

Tails == UNION {[1..n -> TailAlphabet] : n \in 0..MaxTailLen}

Heads == {ExtPrefix, <<"e", "x", "t">>, <<"E", "x", "t", ":">>, <<>>}

ActionStrings == {h \o t : h \in Heads, t \in Tails}

\* executeAction(action, 'onStart').then(...), as lines 119-133 call it
CallExecuteAction(action) ==
  /\ calls[0] = <<>>
  /\ Commit(ExecuteAction(Effects, 0, "onStart", action, showNotification))
  /\ UNCHANGED <<active, activated, activations, sbDisposed>>
  /\ ConfigUnchanged /\ HostExecUnchanged /\ WarnUnchanged /\ NotifyUnchanged
  /\ ExecHistoryUnchanged

InitAction ==
  /\ InitModule
  /\ triggers = <<>>
  /\ showNotification \in BOOLEAN
  /\ activated = {}
  /\ shownWarningFlag = TRUE

NextAction ==
  \/ (calls[0] = <<>> /\ \E action \in ActionStrings : CallExecuteAction(action))
  \/ \E x \in Installed : ActivateExtension(x)
  \/ \E i \in 1..Len(tasks) : ResumeTask(i)
  \/ \E i \in 1..Len(tasks), resolved \in BOOLEAN : SettleTask(i, resolved)

SpecAction == InitAction /\ [][NextAction]_vars

(***************************************************************************)
(* The Shell Integration warning over activations, terminals and time.     *)
(***************************************************************************)
InitWarn ==
  /\ InitModule
  /\ triggers = <<>>
  /\ showNotification = TRUE
  /\ activated = {}
  /\ shownWarningFlag \in BOOLEAN

TimerStep ==
  \/ \E t \in timers : CheckTimerFires(t)
  \/ \E t \in timers : OpenCheckFires(t)

UserStep ==
  \/ Activate
  \/ Deactivate
  \/ \E x \in Terminals : OpenTerminal(x)
  \/ \E x \in Terminals : IntegrationActivates(x)
  \/ \E x \in Terminals : CloseTerminal(x)
  \/ \E selection \in Selections : UserSelects(selection)

NextWarn == UserStep \/ TimerStep \/ Tick \/ ProcessExit

SpecWarn == InitWarn /\ [][NextWarn]_vars

\* While the extension host runs, time passes and due timers fire.
NextWarnLive == UserStep \/ TimerStep \/ Tick

SpecWarnLive ==
  /\ InitWarn
  /\ [][NextWarnLive]_vars
  /\ WF_vars(Tick)
  /\ WF_vars(TimerStep)

(***************************************************************************)
(* The status bar notification over calls, time and activations.           *)
(***************************************************************************)
NotificationTexts ==
  { [phase |-> "onStart", action |-> CmdK], [phase |-> "onEnd", action |-> CmdJ] }

\* a promise resolves and its callback calls showTemporaryNotification
NotificationShown(message) ==
  /\ active \/ sbDisposed
  /\ Len(notifications[0]) < MaxNotifications
  /\ ShowTemporaryNotification(0, message)
  /\ UNCHANGED <<active, activated, activations, sbDisposed>>
  /\ ConfigUnchanged /\ HostExecUnchanged /\ WarnUnchanged
  /\ ExecHistoryUnchanged /\ EffectsUnchanged

InitNotify ==
  /\ InitModule
  /\ triggers = <<>>
  /\ showNotification = TRUE
  /\ activated = {}
  /\ shownWarningFlag = TRUE

NextNotify ==
  \/ Activate
  \/ Deactivate
  \/ \E message \in NotificationTexts : NotificationShown(message)
  \/ \E d \in Durations : ChangeDuration(d)
  \/ \E t \in timers : HideTimerFires(t)
  \/ Tick
  \/ ProcessExit

SpecNotify == InitNotify /\ [][NextNotify]_vars

(***************************************************************************)
(* What the claims speak of, stated from the events and the configuration. *)
(***************************************************************************)
\* the step handles a start event, an end event, for e
StartHandled(e) == ~startSeen[e].seen /\ startSeen'[e].seen
EndHandled(e) == endSeen'[e] = endSeen[e] + 1

\* the triggers of trig that compile and match cmd
Matching(trig, cmd) ==
  {i \in 1..Len(trig) :
     ValidPattern(trig[i].pattern) /\ RegExpTest(NewRegExp(trig[i].pattern), cmd)}

Least(S) == CHOOSE k \in S : \A j \in S : k <= j

\* the position in trig of the first trigger matching cmd, 0 when none does
FirstMatch(trig, cmd) == IF Matching(trig, cmd) = {} THEN 0 ELSE Least(Matching(trig, cmd))

\* the start event of e was handled and matched a trigger
Matched(e) ==
  /\ startSeen[e].seen
  /\ Trim(commandLine[e]) # <<>>
  /\ FirstMatch(startSeen[e].triggers, Trim(commandLine[e])) # 0

\* the trigger T the start event of e matched
MatchedTrigger(e) ==
  startSeen[e].triggers[FirstMatch(startSeen[e].triggers, Trim(commandLine[e]))]

\* the call executeAction(action, phase) when there is an action, none otherwise
CallOf(phase, action) ==
  IF action = <<>> THEN <<>> ELSE <<[phase |-> phase, action |-> action]>>

\* the triggers of trig whose regex text is that of pattern
SameRegexText(trig, pattern) ==
  {i \in 1..Len(trig) :
     /\ ValidPattern(trig[i].pattern)
     /\ RegExpToString(NewRegExp(trig[i].pattern)) = RegExpToString(NewRegExp(pattern))}

\* the step adds exactly the calls cs to the calls of e, and no other call
CallsGrowBy(e, cs) ==
  /\ calls'[e] = calls[e] \o cs
  /\ \A f \in Owners \ {e} : calls'[f] = calls[f]

OnEndCalls(e) == {j \in 1..Len(calls[e]) : calls[e][j].phase = "onEnd"}

(***************************************************************************)
(* C1 as stated: the end event of an execution whose start matched trigger *)
(* T calls T's onEnd (when T has one) and the onEnd of no other trigger,   *)
(* whatever happens between that start and that end.                       *)
(***************************************************************************)
C1_EndFiresMatchedTrigger ==
  [][\A e \in Executions :
       (EndHandled(e) /\ e \in DOMAIN activeExecutions)
         => CallsGrowBy(e, CallOf("onEnd", MatchedTrigger(e).onEnd))]_vars

(***************************************************************************)
(* C1 amended: the end event of an execution whose start matched trigger T *)
(* calls the onEnd of the first trigger, in the list configured when the   *)
(* end event arrives, whose regex text is that of T, and no other onEnd;   *)
(* that trigger is T itself when the list is the one read at the start,    *)
(* whatever other executions start or end in between.                      *)
(***************************************************************************)
C1_EndFiresTriggerOfRegexText ==
  [][\A e \in Executions :
       (EndHandled(e) /\ e \in DOMAIN activeExecutions)
         => LET T == MatchedTrigger(e)
                same == SameRegexText(triggers, T.pattern)
                expected == IF same = {} THEN <<>>
                            ELSE CallOf("onEnd", triggers[Least(same)].onEnd)
            IN  /\ CallsGrowBy(e, expected)
                /\ triggers = startSeen[e].triggers
                     => expected = CallOf("onEnd", T.onEnd)]_vars

\* C1's case: an execution ended and its trigger's onEnd was called while
\* another execution, matched by a trigger of another pattern, was in flight
C1_Witness ==
  \E e, f \in Executions :
    /\ e # f
    /\ Matched(e) /\ Matched(f)
    /\ endSeen[e] = 1 /\ OnEndCalls(e) # {}
    /\ f \in DOMAIN activeExecutions
    /\ MatchedTrigger(e).pattern # MatchedTrigger(f).pattern
    /\ MatchedTrigger(e).onEnd # MatchedTrigger(f).onEnd

(***************************************************************************)
(* C2: a start event with a non-blank command line calls the onStart of    *)
(* the first trigger, in configuration order, that matches the trimmed     *)
(* command line, and records the execution; no action of a later trigger   *)
(* is called; when no trigger matches nothing is called or recorded.       *)
(***************************************************************************)
C2_FirstMatchOnly ==
  [][\A e \in Executions :
       (StartHandled(e) /\ Trim(commandLine'[e]) # <<>>)
         => LET i == FirstMatch(triggers, Trim(commandLine'[e])) IN
            IF i = 0
            THEN UNCHANGED <<activeExecutions, calls, invoked, tasks>>
            ELSE /\ CallsGrowBy(e, CallOf("onStart", triggers[i].onStart))
                 /\ DOMAIN activeExecutions' = DOMAIN activeExecutions \cup {e}]_vars

\* C2's case: the first of two matching triggers was the one called
C2_Witness ==
  \E e \in Executions :
    /\ Matched(e)
    /\ Cardinality(Matching(startSeen[e].triggers, Trim(commandLine[e]))) >= 2
    /\ calls[e] # <<>>
    /\ calls[e][1] = [phase |-> "onStart", action |-> MatchedTrigger(e).onStart]

(***************************************************************************)
(* C3 as stated, in its particular case: the onEnd target of an execution  *)
(* is never invoked while the onStart action of the same execution is      *)
(* still awaiting the extension's activate().                              *)
(***************************************************************************)
C3_StartTargetBeforeEndTarget ==
  \A e \in Executions :
    (\E i \in 1..Len(tasks) :
        tasks[i].e = e /\ tasks[i].phase = "onStart" /\ tasks[i].pc = "activating")
      => \A j \in 1..Len(invoked[e]) : invoked[e][j].phase # "onEnd"

(***************************************************************************)
(* C8: an onEnd action is called at most once per execution: handling the  *)
(* end event leaves the execution without a record, and a further end      *)
(* event for it calls and shows nothing.                                   *)
(***************************************************************************)
C8_OnEndAtMostOnce ==
  [][\A e \in Executions :
       EndHandled(e)
         => /\ e \notin DOMAIN activeExecutions'
            /\ Cardinality({j \in 1..Len(calls'[e]) : calls'[e][j].phase = "onEnd"}) <= 1
            /\ endSeen[e] >= 1
                 => UNCHANGED <<calls, invoked, tasks, messages, notifications>>]_vars

\* C8's case: a second end event arrived for an execution whose onEnd was called
C8_Witness ==
  \E e \in Executions : endSeen[e] = 2 /\ Cardinality(OnEndCalls(e)) = 1

(***************************************************************************)
(* C9: an end event for an execution without a record calls no action,     *)
(* shows nothing and leaves activeExecutions as it was.                    *)
(***************************************************************************)
C9_EndWithoutRecordChangesNothing ==
  [][\A e \in Executions :
       (EndHandled(e) /\ e \notin DOMAIN activeExecutions)
         => UNCHANGED <<activeExecutions, calls, invoked, lookups, tasks, messages,
                        notifications, sbText, sbVisible, statusBarTimeout, timers>>]_vars

\* C9's case: an end event was handled for an execution that was never
\* recorded (blank, unmatched or started before activation) while another
\* execution has a record
C9_Witness ==
  \E e, f \in Executions :
    /\ endSeen[e] >= 1
    /\ ~Matched(e)
    /\ f \in DOMAIN activeExecutions

(***************************************************************************)
(* C10: activeExecutions holds exactly the executions whose start event    *)
(* matched a trigger in this activation and whose end event has not been   *)
(* handled, each mapped to the regex of the first trigger that matched.    *)
(***************************************************************************)
C10_ActiveExecutionsExact ==
  /\ DOMAIN activeExecutions =
       {e \in Executions :
          /\ active
          /\ Matched(e)
          /\ startSeen[e].activation = activations
          /\ endSeen[e] = 0}
  /\ \A e \in DOMAIN activeExecutions :
       activeExecutions[e] = NewRegExp(MatchedTrigger(e).pattern)

\* C10's case: one matched execution has ended and left the map, the other,
\* matched too, is still in it, and a third kind, unmatched, is running
C10_Witness ==
  \E e, f \in Executions :
    /\ Matched(e) /\ endSeen[e] = 1 /\ e \notin DOMAIN activeExecutions
    /\ Matched(f) /\ f \in DOMAIN activeExecutions

(***************************************************************************)
(* C4: executeAction resolves an action string by its syntax.  A string    *)
(* starting with 'ext:' is never passed to executeCommand; the extension   *)
(* looked up is the text between 'ext:' and the next ':', the API path is  *)
(* all that follows that ':', and the function at that dotted path is      *)
(* called on its parent with no arguments.  Any other string is passed     *)
(* unchanged to executeCommand and no extension is looked up.              *)
(***************************************************************************)
IsExtAction(a) ==
  Len(a) >= 4 /\ a[1] = "e" /\ a[2] = "x" /\ a[3] = "t" /\ a[4] = ":"

\* the positions after 'ext:' that hold a ':'
ColonsAfterPrefix(a) == {k \in 5..Len(a) : a[k] = ":"}

IdOf(a) == SubSeq(a, 5, Least(ColonsAfterPrefix(a)) - 1)
PathOf(a) == SubSeq(a, Least(ColonsAfterPrefix(a)) + 1, Len(a))

\* every object on the way to the last part of path is a truthy value
ParentsTruthy(api, path) ==
  \A n \in 1..(Len(path) - 1) : Truthy(GetProp(api, SubSeq(path, 1, n)))

C4_ActionSyntax ==
  calls[0] # <<>> =>
    LET a == calls[0][1].action IN
    IF IsExtAction(a)
    THEN /\ \A j \in 1..Len(invoked[0]) :
              LET inv == invoked[0][j] IN
              /\ inv.kind = "api"
              /\ ColonsAfterPrefix(a) # {}
              /\ inv.extensionId = IdOf(a)
              /\ Join(Append(inv.this, inv.method), ".") = PathOf(a)
              /\ GetProp(Exports(inv.extensionId), Append(inv.this, inv.method)) = "function"
              /\ inv.args = <<>>
         /\ ColonsAfterPrefix(a) = {} => lookups = {}
         /\ ColonsAfterPrefix(a) # {} => lookups = {IdOf(a)}
         /\ Len(invoked[0]) <= 1
         /\ ( /\ ColonsAfterPrefix(a) # {}
              /\ IdOf(a) \in Installed
              /\ ParentsTruthy(Exports(IdOf(a)), Split(PathOf(a), "."))
              /\ GetProp(Exports(IdOf(a)), Split(PathOf(a), ".")) = "function"
              /\ \A i \in 1..Len(tasks) : tasks[i].pc # "activating" )
            => Len(invoked[0]) = 1
    ELSE /\ invoked[0] = <<CommandInvocation(0, "onStart", a)>>
         /\ invoked[0][1].command = a
         /\ lookups = {}

\* C4's case: a method was called whose path holds a further ':'
C4_Witness ==
  /\ calls[0] # <<>>
  /\ Len(invoked[0]) = 1
  /\ invoked[0][1].kind = "api"
  /\ \E k \in 1..Len(invoked[0][1].method) : invoked[0][1].method[k] = ":"

(***************************************************************************)
(* C5 as stated: showShellIntegrationWarning is called at most once over   *)
(* any sequence of activations and terminal openings.                      *)
(***************************************************************************)
C5_WarningAtMostOnce == warnings <= 1

(***************************************************************************)
(* C6: an activation that found the flag unset eventually shows the        *)
(* warning once a terminal exists, unless a terminal gets shell            *)
(* integration: after its 3-second check when a terminal is open then, or  *)
(* after the 2-second timer of a terminal opened later; with no terminal   *)
(* open it stays waiting for one.                                          *)
(***************************************************************************)
TimersOf(n, kind) == {t \in timers : t.kind = kind /\ t.owner = n}

\* activation n has a check pending
Waiting(n) == TimersOf(n, "check") # {} \/ TimersOf(n, "openCheck") # {}

SomeIntegration == \E x \in Terminals : terminals[x].integration

\* activation n found no terminal at its check and waits for one to open
Parked(n) == n \in openListeners /\ OpenTerminals = {} /\ ~Waiting(n)

C6_WarningEventuallyShown ==
  \A n \in 1..MaxActivations : \A w \in 0..(MaxActivations * MaxTerminals) :
    ((Waiting(n) \/ (n \in openListeners /\ OpenTerminals # {})) /\ warnings = w)
      ~> (warnings > w \/ SomeIntegration \/ Parked(n))

\* C6's case: no terminal was open at the check, one was opened later, and
\* the warning was shown by the listener's timer
C6_Witness ==
  /\ warnings = 1
  /\ ~shownWarningFlag
  /\ ~SomeIntegration
  /\ OpenTerminals # {}
  /\ timers = {}
  /\ openListeners = {}

(***************************************************************************)
(* C7: at most one hide timer is pending; it is the one of the latest      *)
(* showTemporaryNotification call and fires exactly the duration read by   *)
(* that call after it; the item stays visible until then, so an older      *)
(* timer never hides a newer message.                                      *)
(***************************************************************************)
HideTimers == {t \in timers : t.kind = "hide"}

C7_HiddenExactlyAfterLatest ==
  /\ Cardinality(HideTimers) <= 1
  /\ \A t \in HideTimers :
       t.id = statusBarTimeout /\ t.remaining + sinceShow = lastDuration
  /\ sbVisible => HideTimers # {}
  /\ (sbText # NoText /\ ~sbDisposed /\ sinceShow < lastDuration) => sbVisible

\* C7's case: a second notification replaced a first one whose timer was
\* pending, and the item was hidden by the later timer
C7_Witness ==
  /\ Len(notifications[0]) >= 2
  /\ sbText # NoText /\ ~sbDisposed /\ ~sbVisible
  /\ statusBarTimeout = 0
  /\ sinceShow = lastDuration
  /\ lastDuration < DefaultDuration

(***************************************************************************)
(* C11: the onEnd of the matched trigger fires whatever became of its      *)
(* onStart.  An execution whose start event matched trigger T is recorded  *)
(* at that event whether T has no onStart, or T's onStart is pending, or   *)
(* T's onStart failed, the record stays while the onStart settles, and     *)
(* the end event calls T's onEnd (the trigger list being the one read at   *)
(* the start), whatever the onStart's state is then.                       *)
(***************************************************************************)
\* the onStart action of e is pending: its promise has not settled
OnStartPending(e) ==
  \E i \in 1..Len(tasks) : tasks[i].e = e /\ tasks[i].phase = "onStart"

\* the onStart action of e failed: its rejection callback has run
OnStartFailed(e) ==
  /\ Matched(e)
  /\ \E j \in 1..Len(messages[e]) :
       messages[e][j] = FailedMessage(MatchedTrigger(e).onStart)

\* the end event of e is due in the activation that handled its start
AwaitingEnd(e) ==
  /\ active
  /\ Matched(e)
  /\ startSeen[e].activation = activations
  /\ endSeen[e] = 0

C11_OnEndWhateverOnStart ==
  /\ [](\A e \in Executions : AwaitingEnd(e) => e \in DOMAIN activeExecutions)
  /\ [][\A e \in Executions :
          /\ (StartHandled(e) /\ Trim(commandLine'[e]) # <<>>
                /\ FirstMatch(triggers, Trim(commandLine'[e])) # 0)
               => e \in DOMAIN activeExecutions'
          /\ (EndHandled(e) /\ AwaitingEnd(e) /\ triggers = startSeen[e].triggers)
               => CallsGrowBy(e, CallOf("onEnd", MatchedTrigger(e).onEnd))]_vars

\* C11's case: the onEnd was called for an execution whose onStart had
\* failed at the start event, and for one whose onStart is still pending
C11_Witness ==
  \E e, f \in Executions :
    /\ OnStartFailed(e)
    /\ ExecuteActionParse(MatchedTrigger(e).onStart).outcome = "throw"
    /\ endSeen[e] = 1 /\ OnEndCalls(e) # {}
    /\ Matched(f) /\ OnStartPending(f)
    /\ endSeen[f] = 1 /\ OnEndCalls(f) # {}

\* C11's other case: the onEnd was called for an execution whose trigger
\* has no onStart
C11_WitnessNoOnStart ==
  \E e \in Executions :
    /\ Matched(e)
    /\ MatchedTrigger(e).onStart = <<>>
    /\ endSeen[e] = 1 /\ OnEndCalls(e) # {}

(***************************************************************************)
(* C12: a trigger whose pattern is not a valid regular expression does not *)
(* stop the matching.  At a start event each invalid pattern tried before  *)
(* the first match (every one when nothing matches) gets one error message *)
(* naming it, in order, and the first valid matching trigger after them    *)
(* still has its onStart called and is recorded; at an end event invalid   *)
(* patterns are passed over without a message and the trigger of the       *)
(* recorded regex text after them still has its onEnd called.              *)
(***************************************************************************)
\* the error messages for the invalid patterns among the first n of trig
InvalidMessagesOf(trig, n) ==
  LET bad == SelectSeq(SubSeq(trig, 1, n), LAMBDA t : ~ValidPattern(t.pattern))
  IN  [k \in 1..Len(bad) |-> InvalidMessage(bad[k].pattern)]

\* the messages the step adds for e
AddedMessages(e) == SubSeq(messages'[e], Len(messages[e]) + 1, Len(messages'[e]))

InvalidOnly(ms) == SelectSeq(ms, LAMBDA m : m.kind = "invalid")

\* an invalid pattern stands among the first n of trig
InvalidAmong(trig, n) == \E k \in 1..n : ~ValidPattern(trig[k].pattern)

C12_InvalidPatternSkipped ==
  [][\A e \in Executions :
       /\ (StartHandled(e) /\ Trim(commandLine'[e]) # <<>>)
            => LET i == FirstMatch(triggers, Trim(commandLine'[e]))
                   n == IF i = 0 THEN Len(triggers) ELSE i - 1
               IN  /\ SubSeq(messages'[e], 1, Len(messages[e])) = messages[e]
                   /\ InvalidOnly(AddedMessages(e)) = InvalidMessagesOf(triggers, n)
                   /\ (i # 0 /\ InvalidAmong(triggers, n))
                        => /\ CallsGrowBy(e, CallOf("onStart", triggers[i].onStart))
                           /\ e \in DOMAIN activeExecutions'
                           /\ activeExecutions'[e] = NewRegExp(triggers[i].pattern)
       /\ (EndHandled(e) /\ e \in DOMAIN activeExecutions)
            => LET same == {i \in 1..Len(triggers) :
                              /\ ValidPattern(triggers[i].pattern)
                              /\ RegExpToString(NewRegExp(triggers[i].pattern))
                                   = RegExpToString(activeExecutions[e])}
               IN  /\ InvalidOnly(AddedMessages(e)) = <<>>
                   /\ (same # {} /\ InvalidAmong(triggers, Least(same) - 1))
                        => CallsGrowBy(e, CallOf("onEnd", triggers[Least(same)].onEnd))]_vars

\* C12's case: one execution matched a trigger standing after an invalid
\* pattern, the message was shown and its onStart was called; another
\* ended and the onEnd of a trigger standing after an invalid pattern was
\* called
C12_Witness ==
  \E e, f \in Executions :
    /\ Matched(e) /\ Matched(f)
    /\ InvalidAmong(startSeen[e].triggers,
                    FirstMatch(startSeen[e].triggers, Trim(commandLine[e])) - 1)
    /\ messages[e] = <<InvalidMessage(T_bad)>>
    /\ calls[e] = <<[phase |-> "onStart", action |-> MatchedTrigger(e).onStart]>>
    /\ InvalidAmong(startSeen[f].triggers,
                    FirstMatch(startSeen[f].triggers, Trim(commandLine[f])) - 1)
    /\ triggers = startSeen[f].triggers
    /\ endSeen[f] = 1
    /\ calls[f] = <<[phase |-> "onEnd", action |-> MatchedTrigger(f).onEnd]>>

(***************************************************************************)
(* C13: every failure of an 'ext:' action is an error with no invocation.  *)
(* When the string has no ':' after the extension id, when the extension   *)
(* is not installed, when a path part before the last is missing, or when  *)
(* the last path part is not a function, no API method and no command is   *)
(* ever invoked and no notification is shown, and once executeAction has   *)
(* settled exactly one 'Failed to execute' message naming the action is    *)
(* shown.  A success notification is shown only when the action was        *)
(* invoked and resolved and showNotification was true, and then no error   *)
(* message is.                                                             *)
(***************************************************************************)
NoSecondColon(a) == ColonsAfterPrefix(a) = {}

NotInstalled(a) == ~NoSecondColon(a) /\ IdOf(a) \notin Installed

PartMissing(a) ==
  /\ ~NoSecondColon(a) /\ IdOf(a) \in Installed
  /\ ~ParentsTruthy(Exports(IdOf(a)), Split(PathOf(a), "."))

NotAFunction(a) ==
  /\ ~NoSecondColon(a) /\ IdOf(a) \in Installed
  /\ ParentsTruthy(Exports(IdOf(a)), Split(PathOf(a), "."))
  /\ GetProp(Exports(IdOf(a)), Split(PathOf(a), ".")) # "function"

ExtFailure(a) ==
  IsExtAction(a) /\ (NoSecondColon(a) \/ NotInstalled(a) \/ PartMissing(a) \/ NotAFunction(a))

C13_ExtFailureIsError ==
  calls[0] # <<>> =>
    LET a == calls[0][1].action IN
    /\ ExtFailure(a)
         => /\ invoked[0] = <<>>
            /\ notifications[0] = <<>>
            /\ messages[0] \in {<<>>, <<FailedMessage(a)>>}
            /\ (NoSecondColon(a) \/ NotInstalled(a)) => messages[0] = <<FailedMessage(a)>>
            /\ tasks = <<>> => messages[0] = <<FailedMessage(a)>>
    /\ notifications[0] # <<>>
         => /\ notifications[0] = <<[phase |-> "onStart", action |-> a]>>
            /\ showNotification
            /\ Len(invoked[0]) = 1
            /\ tasks = <<>>
            /\ messages[0] = <<>>
    /\ (tasks = <<>> /\ messages[0] = <<>> /\ showNotification)
         => notifications[0] # <<>>

\* C13's case: the extension was activated, a path part before the last was
\* missing, and the one error message was shown
C13_Witness ==
  /\ calls[0] # <<>>
  /\ PartMissing(calls[0][1].action)
  /\ activated # {}
  /\ tasks = <<>>
  /\ messages[0] = <<FailedMessage(calls[0][1].action)>>
  /\ invoked[0] = <<>>

\* C13's other cases, each with its error message shown
C13_WitnessNoSecondColon ==
  calls[0] # <<>> /\ NoSecondColon(calls[0][1].action) /\ IsExtAction(calls[0][1].action)
    /\ messages[0] # <<>>

C13_WitnessNotInstalled ==
  calls[0] # <<>> /\ IsExtAction(calls[0][1].action) /\ NotInstalled(calls[0][1].action)
    /\ messages[0] # <<>>

C13_WitnessNotAFunction ==
  calls[0] # <<>> /\ IsExtAction(calls[0][1].action) /\ NotAFunction(calls[0][1].action)
    /\ messages[0] # <<>>

C13_WitnessHidden ==
  calls[0] # <<>> /\ ~showNotification /\ tasks = <<>> /\ Len(invoked[0]) = 1
    /\ messages[0] = <<>>

(***************************************************************************)
(* C14: the end event reads the trigger list configured then and finds the *)
(* trigger by regex text.  The onEnd called is that of the first trigger   *)
(* of the current list whose pattern compiles to the regex text of the     *)
(* regex recorded at start; when no trigger of the current list has that   *)
(* text nothing is called, invoked or shown; the record is removed in      *)
(* either case.                                                            *)
(***************************************************************************)
\* the triggers of trig whose compiled pattern has the text of regex
TextOf(trig, regex) ==
  {i \in 1..Len(trig) :
     /\ ValidPattern(trig[i].pattern)
     /\ RegExpToString(NewRegExp(trig[i].pattern)) = RegExpToString(regex)}

C14_EndFindsByRegexText ==
  [][\A e \in Executions :
       (EndHandled(e) /\ e \in DOMAIN activeExecutions)
         => LET found == TextOf(triggers, activeExecutions[e]) IN
            /\ e \notin DOMAIN activeExecutions'
            /\ IF found = {}
               THEN UNCHANGED <<calls, invoked, tasks, lookups, messages, notifications>>
               ELSE CallsGrowBy(e, CallOf("onEnd", triggers[Least(found)].onEnd))]_vars

\* C14's case: the list was changed between the start and the end of two
\* executions; for one the new list has another trigger of the same regex
\* text, whose onEnd was called; for the other it has none, and nothing was
\* called though the trigger matched at start had an onEnd
C14_Witness ==
  \E e, f \in Executions :
    /\ e # f /\ active
    /\ Matched(e) /\ Matched(f)
    /\ endSeen[e] = 1 /\ endSeen[f] = 1
    /\ triggers # startSeen[e].triggers /\ triggers # startSeen[f].triggers
    /\ LET same == SameRegexText(triggers, MatchedTrigger(e).pattern) IN
       /\ same # {}
       /\ triggers[Least(same)].onEnd # MatchedTrigger(e).onEnd
       /\ calls[e] # <<>>
       /\ calls[e][Len(calls[e])] =
            [phase |-> "onEnd", action |-> triggers[Least(same)].onEnd]
    /\ SameRegexText(triggers, MatchedTrigger(f).pattern) = {}
    /\ MatchedTrigger(f).onEnd # <<>>
    /\ OnEndCalls(f) = {}
    /\ DOMAIN activeExecutions = {}

(***************************************************************************)
(* C15: a start event whose command line is empty after trimming calls no  *)
(* action, records nothing in activeExecutions and tries no trigger (no    *)
(* pattern is compiled, so no invalid-pattern message is shown), even when *)
(* a configured pattern matches the empty string.                          *)
(***************************************************************************)
C15_BlankStartDoesNothing ==
  [][\A e \in Executions :
       (StartHandled(e) /\ Trim(commandLine'[e]) = <<>>)
         => UNCHANGED <<activeExecutions, calls, invoked, lookups, tasks, messages,
                        notifications, sbText, sbVisible, statusBarTimeout, timers>>]_vars

\* C15's case: a blank command line started under a list whose first
\* pattern, the empty one, matches the empty string, another under a list
\* that holds an invalid pattern, and nothing was called, recorded or shown
C15_Witness ==
  \E e, f \in Executions :
    /\ startSeen[e].seen /\ startSeen[f].seen
    /\ Trim(commandLine[e]) = <<>> /\ Trim(commandLine[f]) = <<>>
    /\ commandLine[e] # <<>>
    /\ FirstMatch(startSeen[e].triggers, <<>>) = 1
    /\ InvalidAmong(startSeen[f].triggers, Len(startSeen[f].triggers))
    /\ calls[e] = <<>> /\ calls[f] = <<>>
    /\ messages[e] = <<>> /\ messages[f] = <<>>
    /\ DOMAIN activeExecutions = {}

====
